---- MODULE Spec2Model ----
(***************************************************************************)
(* Model of the decklist tracker's crafting recommender                    *)
(* (craft_suggester.rs) together with the parts of Deck (lib.rs) and       *)
(* Collection (collection.rs) it reads.                                    *)
(*                                                                         *)
(* Spec follows calls of recommend step by step.  CollSpec follows a       *)
(* Collection through insert, FromIterator, merge and get.  MissingSpec    *)
(* applies Collection::missing and DeckSpec applies Deck::cards to inputs  *)
(* drawn by their initial states.                                          *)
(*                                                                         *)
(* A card name is a sequence of tokens.  The tokens "A-" and " // " stand  *)
(* for the alternate-art prefix and the split-card separator; every other  *)
(* token is a piece of ordinary text.                                      *)
(* A selection (a BitVec with one bit per relevant deck) is the set of the *)
(* positions 1..k whose bit is set.                                        *)
(***************************************************************************)
EXTENDS Naturals, Sequences, FiniteSets, TLC

VARIABLES
    roster,          \* Roster.decks: the sequence of decks
    collection,      \* Collection.content: name -> sequence of <<amount, rarity, set>>
    rares_limit,     \* CraftRecommender.rares_limit
    mythics_limit,   \* CraftRecommender.mythics_limit
    ignore_sb,       \* CraftRecommender.ignore_sb
    starting_sel,    \* CraftRecommender.starting_sel (only ever tested with contains)
    pc,              \* "ready", "search", "done" or "panicked"
    decks,           \* recommend: the relevant decks
    columns_rares,   \* recommend: one column per relevant deck over the rare rows
    columns_mythics, \* recommend: one column per relevant deck over the mythic rows
    mem,             \* recommend: the memo table, selection -> value
    stack,           \* the active recommend_inner calls that are iterating `possible`
    pending,         \* <<sel>>: recommend_inner(sel) is about to run; << >>: none
    decks_codes,     \* recommend: the selections picked out of the memo table
    result,          \* recommend: the returned deck-name lists
    expansions,      \* history: how often each selection got past the memo lookup
    prev,            \* history: limits and result of the previous call, or << >>
    other,           \* a second Collection.content: the one FromIterator builds
    overflow_checks, \* the build profile: TRUE when integer overflow panics
    last,            \* history: the last operation outside recommend and its outcome
    wallet,          \* Wildcards: the owned wildcards per craftable rarity
    file,            \* the roster document at Roster.path: whether it exists, its decks
    cache            \* MtgaIdTranslator.cache: id -> "none" or the card data

vars == <<roster, collection, rares_limit, mythics_limit, ignore_sb, starting_sel,
          pc, decks, columns_rares, columns_mythics, mem, stack, pending,
          decks_codes, result, expansions, prev, other, overflow_checks, last,
          wallet, file, cache>>

\* the wallet, the roster document and the translator
aux == <<wallet, file, cache>>

\* what a call of recommend leaves alone
inputs == <<roster, collection, ignore_sb, starting_sel, other, overflow_checks, last,
            aux>>

\* what the operations outside recommend leave alone
search_vars == <<rares_limit, mythics_limit, starting_sel, pc, decks, columns_rares,
                 columns_mythics, mem, stack, pending, decks_codes, result,
                 expansions, prev>>

----------------------------------------------------------------------------
(* Bounds and sample data *)

\* limits are drawn from 0..MaxLimit
MaxLimit == 2

CardX == <<"X">>
CardY == <<"Y">>
CardM == <<"M">>
Karn == <<"Karn, the Great Creator">>

DeckNames == <<"D1", "D2", "D3">>

\* the decklists a roster entry is drawn from
Decklists ==
    { [names_main |-> <<CardX, CardY>>, amounts_main |-> <<1, 1>>,
       names_side |-> << >>, amounts_side |-> << >>],
      [names_main |-> <<CardX>>, amounts_main |-> <<3>>,
       names_side |-> << >>, amounts_side |-> << >>],
      [names_main |-> <<CardM>>, amounts_main |-> <<2>>,
       names_side |-> << >>, amounts_side |-> << >>],
      [names_main |-> <<CardY>>, amounts_main |-> <<1>>,
       names_side |-> <<CardM>>, amounts_side |-> <<1>>],
      [names_main |-> <<CardX>>, amounts_main |-> <<1>>,
       names_side |-> << >>, amounts_side |-> << >>] }

\* the collections the run is drawn from: one owning a copy of X (with two
\* printings), one owning nothing, one that does not know M at all
Collections ==
    { (CardX :> <<<<0, "Mythic", "s2">>, <<1, "Rare", "s1">>>>)
        @@ (CardY :> <<<<0, "Rare", "s1">>>>)
        @@ (CardM :> <<<<0, "Mythic", "s1">>>>),
      (CardX :> <<<<0, "Rare", "s1">>>>)
        @@ (CardY :> <<<<0, "Rare", "s1">>>>)
        @@ (CardM :> <<<<0, "Mythic", "s1">>>>),
      (CardX :> <<<<0, "Rare", "s1">>>>)
        @@ (CardY :> <<<<0, "Rare", "s1">>>>) }

----------------------------------------------------------------------------
(* Helpers *)

Max(a, b) == IF a >= b THEN a ELSE b

Range(s) == { s[i] : i \in DOMAIN s }

\* the derived Ord of Rarity: the position of the variant in the enum
RarityOrd(r) ==
    CASE r = "Common" -> 0
      [] r = "Uncommon" -> 1
      [] r = "Rare" -> 2
      [] r = "Mythic" -> 3
      [] r = "Land" -> 4
      [] r = "Unknown" -> 5

----------------------------------------------------------------------------
(* collection.rs *)

RECURSIVE trim_start(_)
\* str::trim_start_matches("A-"): drops every leading "A-"
trim_start(name) ==
    IF name # << >> /\ Head(name) = "A-" THEN trim_start(Tail(name)) ELSE name

simplified_name(name) ==
    LET trimmed == trim_start(name)
        seps == { i \in DOMAIN trimmed : trimmed[i] = " // " }
    IN IF seps = {} THEN name
       ELSE SubSeq(trimmed, 1, (CHOOSE i \in seps : \A j \in seps : i <= j) - 1)

\* Collection::get succeeds (the Ok branch)
get_ok(coll, name) == simplified_name(name) \in DOMAIN coll

get(coll, name) == coll[simplified_name(name)]

\* the largest u8
U8Max == 255

\* the sum of the printings' amounts, as a natural number
RECURSIVE owned_sum(_)
owned_sum(card_group) ==
    IF card_group = << >> THEN 0
    ELSE Head(card_group)[1] + owned_sum(Tail(card_group))

\* the u8 sum of the amounts overflows: a panic where overflow is checked
sum_overflows(card_group) == owned_sum(card_group) > U8Max

\* the owned total of a card group: the u8 sum of the printings' amounts, which
\* wraps where overflow is not checked
owned_amount(card_group) == owned_sum(card_group) % (U8Max + 1)

\* min_by_key(rarity): the first printing among those of the lowest rarity
lowest_printing(card_group) ==
    LET lowest(i) == \A j \in DOMAIN card_group :
                        RarityOrd(card_group[i][2]) <= RarityOrd(card_group[j][2])
        first == CHOOSE i \in DOMAIN card_group :
                    lowest(i) /\ \A j \in DOMAIN card_group : lowest(j) => i <= j
    IN card_group[first]

\* u8::saturating_sub
saturating_sub(a, b) == IF a >= b THEN a - b ELSE 0

----------------------------------------------------------------------------
(* lib.rs: Deck.  The amounts of the sample decklists stay far below 256,  *)
(* so the u8 additions of Deck::cards never overflow here: the wrap of the *)
(* amounts in `cards` is never taken, nor the panic of a checked build.    *)

\* the sideboard prefix a wishboard deck always counts
WishboardTake == 7

\* the entries of a name as they would be if each one overwrote the amount
\* instead of adding to it: the amount of the last entry of this name
zip_sum_last(amounts, names, card_name) ==
    LET len == IF Len(amounts) < Len(names) THEN Len(amounts) ELSE Len(names)
        hits == { i \in 1..len : names[i] = card_name }
    IN IF hits = {} THEN 0 ELSE amounts[CHOOSE i \in hits : \A j \in hits : j <= i]

\* the sum of the amounts zipped with an entry of this name
RECURSIVE zip_sum(_, _, _)
zip_sum(amounts, names, card_name) ==
    IF amounts = << >> \/ names = << >> THEN 0
    ELSE (IF Head(names) = card_name THEN Head(amounts) ELSE 0)
         + zip_sum(Tail(amounts), Tail(names), card_name)

\* Iterator::take as it would be without its limit
take_all(s, n) == s

take(s, n) == SubSeq(s, 1, IF Len(s) < n THEN Len(s) ELSE n)

\* Deck::cards: the HashMap name -> amount it iterates over
cards(deck, ignore_sideboard) ==
    LET has_wishboard == Karn \in Range(deck.names_main)
        side_len == IF Len(deck.amounts_side) < Len(deck.names_side)
                    THEN Len(deck.amounts_side) ELSE Len(deck.names_side)
        all_amounts == IF ~ignore_sideboard THEN take(deck.amounts_side, side_len) ELSE << >>
        all_names == IF ~ignore_sideboard THEN take(deck.names_side, side_len) ELSE << >>
        wish_amounts == IF ignore_sideboard /\ has_wishboard
                        THEN take(take(deck.amounts_side, side_len), WishboardTake) ELSE << >>
        wish_names == IF ignore_sideboard /\ has_wishboard
                      THEN take(take(deck.names_side, side_len), WishboardTake) ELSE << >>
        main_len == IF Len(deck.amounts_main) < Len(deck.names_main)
                    THEN Len(deck.amounts_main) ELSE Len(deck.names_main)
        main_names == take(deck.names_main, main_len)
    IN [card_name \in Range(main_names) \cup Range(all_names) \cup Range(wish_names) |->
            (zip_sum(deck.amounts_main, deck.names_main, card_name)
             + zip_sum(all_amounts, all_names, card_name)
             + zip_sum(wish_amounts, wish_names, card_name)) % (U8Max + 1)]

\* Deck::contains
contains(deck, card_name, ignore_sideboard) ==
    \/ card_name \in Range(deck.names_main)
    \/ ~ignore_sideboard /\ card_name \in Range(deck.names_side)

----------------------------------------------------------------------------
(* collection.rs: missing *)

\* Collection::missing returns Ok: every card of the deck is known
missing_ok(coll, deck, ignore_sideboard) ==
    \A card_name \in DOMAIN cards(deck, ignore_sideboard) : get_ok(coll, card_name)

\* Collection::missing: the tuples <<name, missing amount, lowest rarity, set>>
missing(coll, deck, ignore_sideboard) ==
    LET deck_cards == cards(deck, ignore_sideboard)
    IN { LET card_group == get(coll, card_name)
             lowest == lowest_printing(card_group)
         IN <<card_name,
              saturating_sub(deck_cards[card_name], owned_amount(card_group)),
              lowest[2], lowest[3]>>
         : card_name \in DOMAIN deck_cards }

RECURSIVE sum_amounts(_)
sum_amounts(tuples) ==
    IF tuples = {} THEN 0
    ELSE LET t == CHOOSE u \in tuples : TRUE IN t[2] + sum_amounts(tuples \ {t})

\* Collection::count_missing_of_rarity
count_missing_of_rarity(coll, deck, ignore_sideboard, rarity) ==
    sum_amounts({ t \in missing(coll, deck, ignore_sideboard) : t[3] = rarity })

----------------------------------------------------------------------------
(* craft_suggester.rs *)

\* relevant_decks as it would be without the test for a missing copy
is_relevant_any(coll, deck, ignore_sideboard, rares, mythics) ==
    /\ count_missing_of_rarity(coll, deck, ignore_sideboard, "Rare") <= rares
    /\ count_missing_of_rarity(coll, deck, ignore_sideboard, "Mythic") <= mythics

\* relevant_decks as it would be without the tests against the limits
is_relevant_unbounded(coll, deck, ignore_sideboard, rares, mythics) ==
    0 < count_missing_of_rarity(coll, deck, ignore_sideboard, "Rare")
        + count_missing_of_rarity(coll, deck, ignore_sideboard, "Mythic")

\* the filter of relevant_decks
is_relevant(coll, deck, ignore_sideboard, rares, mythics) ==
    LET missing_rares == count_missing_of_rarity(coll, deck, ignore_sideboard, "Rare")
        missing_mythics == count_missing_of_rarity(coll, deck, ignore_sideboard, "Mythic")
    IN /\ 0 < missing_rares + missing_mythics
       /\ missing_rares <= rares
       /\ missing_mythics <= mythics

relevant_decks(ro, coll, ignore_sideboard, rares, mythics) ==
    LET keep(deck) == is_relevant(coll, deck, ignore_sideboard, rares, mythics)
    IN SelectSeq(ro, keep)

\* the rows <<name, n>> of one rarity
build_rows_index(coll, ignore_sideboard, ds, target) ==
    UNION { UNION { { <<t[1], n>> : n \in 1..t[2] }
                    : t \in { u \in missing(coll, ds[i], ignore_sideboard) : u[3] = target } }
            : i \in DOMAIN ds }

\* one column per deck: the bit of every row
build_matrix(ds, rows_index) ==
    [i \in DOMAIN ds |-> [row \in rows_index |-> contains(ds[i], row[1], FALSE)]]

\* recommend as it would be if it always started from the empty selection
starting_bits_none(ds, sel_names) == {}

\* recommend: the bits of the decks named in starting_sel
starting_bits(ds, sel_names) == { i \in DOMAIN ds : ds[i].name \in sel_names }

\* recommend_inner: current_sel | (1 << j)
with_bit(current_sel, j) == current_sel \cup {j}

\* recommend_inner: the number of rows set in the OR of the selected columns
count_nonzero(columns, new_sel) ==
    Cardinality({ row \in DOMAIN columns[1] : \E i \in new_sel : columns[i][row] })

\* recommend_inner: the filter on the budget
within_limits(cols_rares, cols_mythics, rares, mythics, new_sel) ==
    /\ count_nonzero(cols_rares, new_sel) <= rares
    /\ count_nonzero(cols_mythics, new_sel) <= mythics

\* recommend_inner: the possible next selections, in the order of j
possible_steps(cols_rares, cols_mythics, rares, mythics, current_sel) ==
    LET candidates == [j \in DOMAIN cols_rares |-> with_bit(current_sel, j)]
        keep(new_sel) == /\ new_sel # current_sel
                         /\ within_limits(cols_rares, cols_mythics, rares, mythics, new_sel)
    IN SelectSeq(candidates, keep)

\* the comparison as it would be without the number of decks
cmp_le_value(table, k1, k2) == table[k1] <= table[k2]

\* the comparison handed to max_set_by: the value, then the number of decks
cmp_le(table, k1, k2) ==
    \/ table[k1] < table[k2]
    \/ table[k1] = table[k2] /\ Cardinality(k1) <= Cardinality(k2)

\* Itertools::max_set_by: every entry that no other entry exceeds
max_set_by(table) ==
    { k1 \in DOMAIN table : \A k2 \in DOMAIN table : cmp_le(table, k2, k1) }

\* recommend: a selection turned back into the names of its decks, in deck order
RECURSIVE names_of(_, _, _)
names_of(ds, code, i) ==
    IF i > Len(ds) THEN << >>
    ELSE (IF i \in code THEN <<ds[i].name>> ELSE << >>) \o names_of(ds, code, i + 1)

\* HashMap::insert
insert(table, key, value) ==
    [k \in DOMAIN table \cup {key} |-> IF k = key THEN value ELSE table[k]]

NoTable == [k \in {} |-> 0]

\* a memo table that is never consulted
has_entry_never(table, key) == FALSE

\* HashMap::get returns Some
has_entry(table, key) == key \in DOMAIN table

----------------------------------------------------------------------------
(* The state machine: one call of recommend, step by step, and a second    *)
(* call on the same roster and collection with a raised budget.            *)

\* the rarities a wildcard crafts
Craftable == {"Common", "Uncommon", "Rare", "Mythic"}

\* no document at the path
NoFile == [exists |-> FALSE, decks |-> << >>]

\* the document as it would be if write serialized no deck
document_empty(ds) == [exists |-> TRUE, decks |-> << >>]

\* the document serde_json writes for these decks
document(ds) == [exists |-> TRUE, decks |-> ds]

\* no wallet, roster document or translator takes part
aux_idle ==
    /\ wallet = [r \in Craftable |-> 0]
    /\ file = NoFile
    /\ cache = NoTable

Rosters ==
    { [i \in DOMAIN DeckNames |->
          [name |-> DeckNames[i],
           names_main |-> list[i].names_main, amounts_main |-> list[i].amounts_main,
           names_side |-> list[i].names_side, amounts_side |-> list[i].amounts_side]]
      : list \in [DOMAIN DeckNames -> Decklists] }

Init ==
    /\ roster \in Rosters
    /\ collection \in Collections
    /\ rares_limit \in 0..MaxLimit
    /\ mythics_limit \in 0..MaxLimit
    /\ ignore_sb \in BOOLEAN
    /\ starting_sel \in SUBSET Range(DeckNames)
    /\ pc = "ready"
    /\ decks = << >>
    /\ columns_rares = << >>
    /\ columns_mythics = << >>
    /\ mem = NoTable
    /\ stack = << >>
    /\ pending = << >>
    /\ decks_codes = {}
    /\ result = {}
    /\ expansions = NoTable
    /\ prev = << >>
    /\ other = NoTable
    /\ overflow_checks = FALSE
    /\ last = << >>
    /\ aux_idle

\* the unwrap of relevant_decks fails on a deck with an unknown card
all_known == \A i \in DOMAIN roster : missing_ok(collection, roster[i], ignore_sb)

\* recommend, lines 95-118, when a deck of the roster names an unknown card
RecommendPanics ==
    /\ pc = "ready"
    /\ ~all_known
    /\ pc' = "panicked"
    /\ UNCHANGED <<inputs, rares_limit, mythics_limit, decks, columns_rares,
                   columns_mythics, mem, stack, pending, decks_codes, result,
                   expansions, prev>>

\* recommend, lines 95-118: up to the call of recommend_inner
Recommend ==
    /\ pc = "ready"
    /\ all_known
    /\ LET ds == relevant_decks(roster, collection, ignore_sb, rares_limit, mythics_limit)
           all_rares == build_rows_index(collection, ignore_sb, ds, "Rare")
           all_mythics == build_rows_index(collection, ignore_sb, ds, "Mythic")
       IN /\ decks' = ds
          /\ columns_rares' = build_matrix(ds, all_rares)
          /\ columns_mythics' = build_matrix(ds, all_mythics)
          /\ pending' = <<starting_bits(ds, starting_sel)>>
    /\ mem' = NoTable
    /\ pc' = "search"
    /\ UNCHANGED <<inputs, rares_limit, mythics_limit, stack, decks_codes, result,
                   expansions, prev>>

\* a value returned by recommend_inner reaches the caller: the running maximum
\* of the frame on top of stk, which then moves on to its next selection
deliver(stk, val) ==
    IF stk = << >> THEN [stack |-> << >>, pending |-> << >>]
    ELSE LET top == stk[Len(stk)]
             rest == Tail(top.todo)
         IN [stack |-> [stk EXCEPT ![Len(stk)] =
                           [top EXCEPT !.best = Max(top.best, val), !.todo = rest]],
             pending |-> IF rest = << >> THEN << >> ELSE <<Head(rest)>>]

\* the history counter of a selection, one higher
bump(table, key) ==
    [k \in DOMAIN table \cup {key} |->
        IF k = key THEN (IF key \in DOMAIN table THEN table[key] ELSE 0) + 1 ELSE table[k]]

\* recommend_inner, lines 148-150: the selection is in the memo table
MemoHit ==
    /\ pc = "search"
    /\ pending # << >>
    /\ has_entry(mem, pending[1])
    /\ LET after == deliver(stack, mem[pending[1]])
       IN stack' = after.stack /\ pending' = after.pending
    /\ UNCHANGED <<inputs, rares_limit, mythics_limit, pc, decks, columns_rares,
                   columns_mythics, mem, decks_codes, result, expansions, prev>>

\* recommend_inner, lines 152-174: no next selection, the value is the deck count
Terminal ==
    /\ pc = "search"
    /\ pending # << >>
    /\ ~has_entry(mem, pending[1])
    /\ LET current_sel == pending[1]
           possible == possible_steps(columns_rares, columns_mythics,
                                      rares_limit, mythics_limit, current_sel)
           after == deliver(stack, Cardinality(current_sel))
       IN /\ possible = << >>
          /\ mem' = insert(mem, current_sel, Cardinality(current_sel))
          /\ expansions' = bump(expansions, current_sel)
          /\ stack' = after.stack
          /\ pending' = after.pending
    /\ UNCHANGED <<inputs, rares_limit, mythics_limit, pc, decks, columns_rares,
                   columns_mythics, decks_codes, result, prev>>

\* recommend_inner, lines 152-178: the first next selection is called
Expand ==
    /\ pc = "search"
    /\ pending # << >>
    /\ ~has_entry(mem, pending[1])
    /\ LET current_sel == pending[1]
           possible == possible_steps(columns_rares, columns_mythics,
                                      rares_limit, mythics_limit, current_sel)
       IN /\ possible # << >>
          /\ stack' = Append(stack, [sel |-> current_sel, todo |-> possible, best |-> 0])
          /\ pending' = <<Head(possible)>>
          /\ expansions' = bump(expansions, current_sel)
    /\ UNCHANGED <<inputs, rares_limit, mythics_limit, pc, decks, columns_rares,
                   columns_mythics, mem, decks_codes, result, prev>>

\* recommend_inner, lines 175-183: every next selection has returned
Finish ==
    /\ pc = "search"
    /\ pending = << >>
    /\ stack # << >>
    /\ LET top == stack[Len(stack)]
           after == deliver(SubSeq(stack, 1, Len(stack) - 1), top.best)
       IN /\ top.todo = << >>
          /\ mem' = insert(mem, top.sel, top.best)
          /\ stack' = after.stack
          /\ pending' = after.pending
    /\ UNCHANGED <<inputs, rares_limit, mythics_limit, pc, decks, columns_rares,
                   columns_mythics, decks_codes, result, expansions, prev>>

\* recommend, lines 120-138: the best entries of the memo table, as names
Collect ==
    /\ pc = "search"
    /\ pending = << >>
    /\ stack = << >>
    /\ decks_codes' = max_set_by(mem)
    /\ result' = { names_of(decks, code, 1) : code \in max_set_by(mem) }
    /\ pc' = "done"
    /\ UNCHANGED <<inputs, rares_limit, mythics_limit, decks, columns_rares,
                   columns_mythics, mem, stack, pending, expansions, prev>>

\* the same roster and collection are asked again with one more wildcard of
\* one rarity in the budget
RaiseBudget ==
    /\ pc = "done"
    /\ prev = << >>
    /\ \E rares \in rares_limit..MaxLimit, mythics \in mythics_limit..MaxLimit :
          /\ rares + mythics = rares_limit + mythics_limit + 1
          /\ rares_limit' = rares
          /\ mythics_limit' = mythics
    /\ prev' = <<[rares |-> rares_limit, mythics |-> mythics_limit, result |-> result]>>
    /\ pc' = "ready"
    /\ decks' = << >>
    /\ columns_rares' = << >>
    /\ columns_mythics' = << >>
    /\ mem' = NoTable
    /\ decks_codes' = {}
    /\ result' = {}
    /\ expansions' = NoTable
    /\ UNCHANGED <<inputs, stack, pending>>

Next ==
    \/ RecommendPanics
    \/ Recommend
    \/ MemoHit
    \/ Terminal
    \/ Expand
    \/ Finish
    \/ Collect
    \/ RaiseBudget

Spec == Init /\ [][Next]_vars

----------------------------------------------------------------------------
(* What the claims speak of *)

\* the missing copies <<name, n>> of one rarity that a deck needs, from
\* Collection::missing
needed_copies(deck, rarity) ==
    UNION { { <<t[1], n>> : n \in 1..t[2] }
            : t \in { u \in missing(collection, deck, ignore_sb) : u[3] = rarity } }

\* the missing copies of one rarity that the decks of a selection need together
needed_by(code, rarity) == UNION { needed_copies(decks[i], rarity) : i \in code }

\* the selection fits the budget, counted in missing copies
affordable(code) ==
    /\ Cardinality(needed_by(code, "Rare")) <= rares_limit
    /\ Cardinality(needed_by(code, "Mythic")) <= mythics_limit

\* the amount of a card that a deck misses (0 when the deck does not need it)
missing_amount(deck, card_name) ==
    LET found == { t \in missing(collection, deck, ignore_sb) : t[1] = card_name }
    IN IF found = {} THEN 0 ELSE (CHOOSE t \in found : TRUE)[2]

Selections == SUBSET DOMAIN decks

built == pc \in {"search", "done"}

\* C1: with no starting selection, every returned set has as many decks as the
\* largest set of relevant decks whose distinct missing rare copies and distinct
\* missing mythic copies both fit the limits.
C1_MaxCompletable ==
    (pc = "done" /\ starting_sel = {}) =>
        \A names \in result :
            /\ \E code \in Selections : affordable(code) /\ Cardinality(code) = Len(names)
            /\ \A code \in Selections : affordable(code) => Cardinality(code) <= Len(names)

\* C2: whatever the starting selection, the decks of every returned set need
\* together at most rares_limit missing rare copies and at most mythics_limit
\* missing mythic copies.
C2_WithinBudget ==
    pc = "done" => \A code \in decks_codes : affordable(code)

\* C3: every returned deck is a deck of the roster that misses at least one rare
\* or mythic copy and whose own missing rares and mythics fit the limits.
C3_OnlyRelevant ==
    pc = "done" =>
        \A names \in result : \A deck_name \in Range(names) :
            \E i \in DOMAIN roster :
                /\ roster[i].name = deck_name
                /\ LET rares == count_missing_of_rarity(collection, roster[i], ignore_sb, "Rare")
                       mythics == count_missing_of_rarity(collection, roster[i], ignore_sb, "Mythic")
                   IN rares + mythics > 0 /\ rares <= rares_limit /\ mythics <= mythics_limit

\* a deck of the roster that misses nothing, one that alone exceeds a limit,
\* and a returned set that is not empty
C3_Witness ==
    /\ pc = "done"
    /\ \E names \in result : names # << >>
    /\ \E i \in DOMAIN roster :
          count_missing_of_rarity(collection, roster[i], ignore_sb, "Rare")
          + count_missing_of_rarity(collection, roster[i], ignore_sb, "Mythic") = 0
    /\ \E i \in DOMAIN roster :
          \/ count_missing_of_rarity(collection, roster[i], ignore_sb, "Rare") > rares_limit
          \/ count_missing_of_rarity(collection, roster[i], ignore_sb, "Mythic") > mythics_limit

\* C4: the bit of a relevant deck at the row <<name, n>> is set exactly when the
\* deck misses at least n copies of that card.
C4_BitIffMissing ==
    built =>
        \A i \in DOMAIN decks :
            /\ \A row \in DOMAIN columns_rares[i] :
                  columns_rares[i][row] <=> missing_amount(decks[i], row[1]) >= row[2]
            /\ \A row \in DOMAIN columns_mythics[i] :
                  columns_mythics[i][row] <=> missing_amount(decks[i], row[1]) >= row[2]

\* the cards of one rarity that a deck misses, with the missing amounts
misses(deck, rarity) ==
    { <<t[1], t[2]>> : t \in { u \in missing(collection, deck, ignore_sb) :
                                  u[3] = rarity /\ u[2] > 0 } }

\* C5: two relevant decks that miss the same n copies of one card of a rarity
\* and nothing else of that rarity consume together exactly n rows of it.
C5_SharedCountedOnce ==
    built =>
        \A i \in DOMAIN decks, j \in DOMAIN decks :
            /\ (i # j /\ misses(decks[i], "Rare") = misses(decks[j], "Rare")
                      /\ Cardinality(misses(decks[i], "Rare")) = 1)
                 => \A m \in misses(decks[i], "Rare") :
                        count_nonzero(columns_rares, {i, j}) = m[2]
            /\ (i # j /\ misses(decks[i], "Mythic") = misses(decks[j], "Mythic")
                      /\ Cardinality(misses(decks[i], "Mythic")) = 1)
                 => \A m \in misses(decks[i], "Mythic") :
                        count_nonzero(columns_mythics, {i, j}) = m[2]

\* C6: with no starting selection, a call with a larger budget returns sets at
\* least as large as the call before it.
C6_Monotone ==
    (pc = "done" /\ prev # << >> /\ starting_sel = {}) =>
        \A names \in result : \A before \in prev[1].result : Len(names) >= Len(before)

\* a deck of this name is in the roster and its own missing rares or mythics
\* exceed the limits
infeasible_alone(deck_name) ==
    \E i \in DOMAIN roster :
        /\ roster[i].name = deck_name
        /\ \/ count_missing_of_rarity(collection, roster[i], ignore_sb, "Rare") > rares_limit
           \/ count_missing_of_rarity(collection, roster[i], ignore_sb, "Mythic") > mythics_limit

\* a step of the call is possible
can_step == ENABLED (MemoHit \/ Terminal \/ Expand \/ Finish \/ Collect)

seeded == { deck_name \in starting_sel : \E i \in DOMAIN decks : decks[i].name = deck_name }

\* the bits of the seeded decks
seeded_bits == { i \in DOMAIN decks : decks[i].name \in starting_sel }

\* C8: every selection the search visits, and every returned set, holds every
\* relevant deck named in starting_sel.
C8_SeedsKept ==
    /\ pc = "search" =>
          /\ \A i \in DOMAIN stack : seeded_bits \subseteq stack[i].sel
          /\ \A i \in DOMAIN pending : seeded_bits \subseteq pending[i]
          /\ \A code \in DOMAIN mem : seeded_bits \subseteq code
    /\ pc = "done" => \A names \in result : seeded \subseteq Range(names)

\* a returned set that holds a seeded deck and a deck the search added
C8_Witness ==
    /\ pc = "done"
    /\ seeded # {}
    /\ \E names \in result : Range(names) \ seeded # {}

\* a next selection of the search: one more deck, within both limits
\* as the bit-matrix counts them
step(code, next) ==
    /\ \E j \in DOMAIN decks : j \notin code /\ next = code \cup {j}
    /\ count_nonzero(columns_rares, next) <= rares_limit
    /\ count_nonzero(columns_mythics, next) <= mythics_limit

terminal(code) == \A next \in Selections : ~step(code, next)

\* the selections reachable from the starting selection in at most n steps
RECURSIVE within(_)
within(n) ==
    IF n = 0 THEN {seeded_bits}
    ELSE LET before == within(n - 1)
         IN before \cup { next \in Selections : \E code \in before : step(code, next) }

reachable == within(Len(decks))

\* C9: every returned selection is terminal, has the size of the largest
\* terminal selection reachable from the starting selection, and at least one
\* selection is returned.
C9_TerminalAndLargest ==
    pc = "done" =>
        /\ decks_codes # {}
        /\ \A code \in decks_codes :
              /\ code \in reachable
              /\ terminal(code)
              /\ \A rival \in reachable :
                    terminal(rival) => Cardinality(rival) <= Cardinality(code)
        /\ result = { names_of(decks, code, 1) : code \in decks_codes }

\* the memo table holds a selection that is not terminal and has the best
\* value, next to the returned ones
C9_Witness ==
    /\ pc = "done"
    /\ \E code \in DOMAIN mem \ decks_codes :
          /\ ~terminal(code)
          /\ \A rival \in DOMAIN mem : mem[rival] <= mem[code]
    /\ Cardinality(decks_codes) >= 2

\* the selections of the active calls, outermost first, with the pending one
call_chain == [i \in DOMAIN stack |-> stack[i].sel] \o pending

\* every call is on a selection with strictly more decks than its caller, no
\* selection got past the memo lookup twice, and the selections that did are
\* those in the memo table and those of the active calls
C10_Measure ==
    /\ \A i \in DOMAIN call_chain : \A j \in DOMAIN call_chain :
          i < j => /\ call_chain[i] \subseteq call_chain[j]
                   /\ Cardinality(call_chain[i]) < Cardinality(call_chain[j])
    /\ \A code \in DOMAIN expansions : expansions[code] <= 1
    /\ DOMAIN expansions = DOMAIN mem \cup { stack[i].sel : i \in DOMAIN stack }

\* the selections that never got past the memo lookup
unexpanded == Selections \ (DOMAIN mem \cup { stack[i].sel : i \in DOMAIN stack })

RECURSIVE open_work(_)
\* the selections the active calls have yet to call, and one per active call
open_work(stk) ==
    IF stk = << >> THEN 0 ELSE Len(Head(stk).todo) + 1 + open_work(Tail(stk))

\* the work left: it is a natural number
work_left == (Len(decks) + 2) * Cardinality(unexpanded) + open_work(stack)

\* C10: the search terminates: every call of recommend_inner is on a strictly
\* larger selection than its caller, every selection is expanded at most once,
\* a selection in the memo table is answered without being expanded, every step
\* of the search lowers the work left, and the search never gets stuck.
C10_Terminates ==
    /\ []C10_Measure
    /\ [](pc = "search" => ENABLED (MemoHit \/ Terminal \/ Expand \/ Finish \/ Collect))
    /\ [][(pc = "search" /\ pc' = "search") => work_left' < work_left]_vars
    /\ [][(pc = "search" /\ pending # << >> /\ has_entry(mem, pending[1]))
              => (mem' = mem /\ expansions' = expansions)]_vars

\* a selection answered from the memo table: the search is done, and one of
\* the selections has two ways into it that were both called
C10_Witness ==
    /\ pc = "done"
    /\ Len(decks) = 3
    /\ DOMAIN mem = Selections
    /\ \A code \in DOMAIN expansions : expansions[code] = 1

\* C11: when a deck of the roster names a card the collection does not know,
\* recommend hands an error back to its caller: it does not crash, and it
\* returns no recommendation.
C11_ErrorNotCrash ==
    ~all_known => (pc # "panicked" /\ pc # "done" /\ result = {})

----------------------------------------------------------------------------
(* Collection::missing on one card group: MissingSpec *)

\* a card group has 1..MaxPrintings printings
MaxPrintings == 2

\* a decklist asks for 1..MaxCopies copies
MaxCopies == 4

\* the amounts a printing is drawn with: the low end and the high end of u8
OwnedAmounts == {0, 1, 2, U8Max - 1, U8Max}

\* the set of the i-th printing of a group
SetNames == <<"s1", "s2", "s3", "s4">>

\* the card groups of n printings, one per set
card_groups(n) ==
    { [i \in 1..n |-> <<f[i][1], f[i][2], SetNames[i]>>] :
        f \in [1..n -> OwnedAmounts \X {"Common", "Rare"}] }

\* no call of recommend is under way
search_idle ==
    /\ rares_limit = 0
    /\ mythics_limit = 0
    /\ starting_sel = {}
    /\ pc = "ready"
    /\ decks = << >>
    /\ columns_rares = << >>
    /\ columns_mythics = << >>
    /\ mem = NoTable
    /\ stack = << >>
    /\ pending = << >>
    /\ decks_codes = {}
    /\ result = {}
    /\ expansions = NoTable
    /\ prev = << >>

\* a collection knowing the one card X, a deck asking for copies of X, and a
\* build profile
MissingInit ==
    /\ \E n \in 1..MaxPrintings : \E card_group \in card_groups(n) :
          collection = (CardX :> card_group)
    /\ \E deck_amount \in 1..MaxCopies :
          roster = << [name |-> "D1", names_main |-> <<CardX>>,
                       amounts_main |-> <<deck_amount>>,
                       names_side |-> << >>, amounts_side |-> << >>] >>
    /\ ignore_sb = FALSE
    /\ overflow_checks \in BOOLEAN
    /\ other = NoTable
    /\ last = [op |-> "none"]
    /\ search_idle
    /\ aux_idle

\* the u8 sum of a card group overflows in a build that checks overflow
MissingPanics ==
    /\ last.op = "none"
    /\ missing_ok(collection, roster[1], ignore_sb)
    /\ overflow_checks
    /\ \E card_name \in DOMAIN cards(roster[1], ignore_sb) :
          sum_overflows(get(collection, card_name))
    /\ last' = [op |-> "missing", outcome |-> "panicked", tuples |-> {}]
    /\ UNCHANGED <<roster, collection, ignore_sb, other, overflow_checks, search_vars, aux>>

\* Collection::missing returns Ok(missing)
MissingReturns ==
    /\ last.op = "none"
    /\ missing_ok(collection, roster[1], ignore_sb)
    /\ ~(overflow_checks
         /\ \E card_name \in DOMAIN cards(roster[1], ignore_sb) :
               sum_overflows(get(collection, card_name)))
    /\ last' = [op |-> "missing", outcome |-> "ok",
                tuples |-> missing(collection, roster[1], ignore_sb)]
    /\ UNCHANGED <<roster, collection, ignore_sb, other, overflow_checks, search_vars, aux>>

MissingNext == MissingPanics \/ MissingReturns

MissingSpec == MissingInit /\ [][MissingNext]_vars

\* C12: for a collection that knows the deck's cards, missing returns, and the
\* amount it reports for each card is max(0, required - owned), owned being
\* the total over all printings of the card (each amount 0..255): never
\* negative, and 0 when the owned total reaches the requirement.
C12_MissingAmount ==
    last.op = "missing" =>
        /\ last.outcome = "ok"
        /\ \A t \in last.tuples :
              LET required == cards(roster[1], ignore_sb)[t[1]]
                  owned == owned_sum(collection[t[1]])
              IN t[2] = IF required > owned THEN required - owned ELSE 0

----------------------------------------------------------------------------
(* collection.rs: insert, merge, FromIterator *)

\* the names insert turns into lands
BasicLands == { <<"Plains">>, <<"Island">>, <<"Swamp">>, <<"Mountain">>, <<"Forest">> }

\* a token of white space
Blank == " "

\* str::trim: drops the white space at both ends
RECURSIVE trim(_)
trim(name) ==
    IF name = << >> THEN name
    ELSE IF Head(name) = Blank THEN trim(Tail(name))
    ELSE IF name[Len(name)] = Blank THEN trim(SubSeq(name, 1, Len(name) - 1))
    ELSE name

\* HashMap::entry(name).or_default()
entry(content, name) == IF name \in DOMAIN content THEN content[name] ELSE << >>

\* the content with the group of this name replaced
with_group(content, name, group) ==
    [k \in DOMAIN content \cup {name} |-> IF k = name THEN group ELSE content[k]]

\* Collection::insert_inner: overwrites the first printing of the same set,
\* or pushes a new printing
insert_inner(content, card_data) ==
    LET group == entry(content, card_data.name)
        found == { i \in DOMAIN group : group[i][3] = card_data.set }
        row == <<card_data.amount, card_data.rarity, card_data.set>>
    IN with_group(content, card_data.name,
            IF found = {} THEN Append(group, row)
            ELSE [group EXCEPT ![CHOOSE i \in found : \A j \in found : i <= j] = row])

\* Collection::insert as it would be if it wrote the literal name only
insert_card_literal(content, card_data) ==
    LET card_name == trim(card_data.name)
        rarity == IF card_name \in BasicLands THEN "Land" ELSE card_data.rarity
    IN insert_inner(content, [amount |-> card_data.amount, name |-> card_name,
                              rarity |-> rarity, set |-> card_data.set])

\* Collection::insert
insert_card(content, card_data) ==
    LET card_name == trim(card_data.name)
        rarity == IF card_name \in BasicLands THEN "Land" ELSE card_data.rarity
    IN insert_inner(
         insert_inner(content, [amount |-> card_data.amount,
                                name |-> simplified_name(card_name),
                                rarity |-> rarity, set |-> card_data.set]),
         [amount |-> card_data.amount, name |-> card_name,
          rarity |-> rarity, set |-> card_data.set])

\* the inner loop of Collection::merge: the rows of one group of other, in order
RECURSIVE merge_group(_, _, _)
merge_group(content, other_name, other_group) ==
    IF other_group = << >> THEN content
    ELSE merge_group(
            insert_card(content, [amount |-> Head(other_group)[1], name |-> other_name,
                                  rarity |-> Head(other_group)[2],
                                  set |-> Head(other_group)[3]]),
            other_name, Tail(other_group))

\* the loop body of FromIterator: pushes the row onto the group of its name
from_iter_push(content, card_data) ==
    with_group(content, card_data.name,
               Append(entry(content, card_data.name),
                      <<card_data.amount, card_data.rarity, card_data.set>>))

----------------------------------------------------------------------------
(* A Collection through its operations: CollSpec *)

\* a behaviour performs at most MaxOps operations
MaxOps == 4

\* the names rows and lookups are drawn from
SampleNames ==
    { <<"X">>, <<"A-", "X">>, <<"A-", "X", " // ", "Y">>,
      <<"Forest">>, <<"Forest", " // ", "Y">>, <<Blank, "X">> }

\* the rows an insert or a fetched/CSV row is drawn from
SampleRows ==
    { [amount |-> p[1], name |-> q[1], rarity |-> p[2], set |-> q[2]] :
        p \in { <<1, "Rare">>, <<2, "Common">> },
        q \in (SampleNames \X {"s1"}) \cup { <<<<"X">>, "s2">> } }

\* Collection::default() for both collections
CollInit ==
    /\ collection = NoTable
    /\ other = NoTable
    /\ last = [n |-> 0, op |-> "none"]
    /\ roster = << >>
    /\ ignore_sb = FALSE
    /\ overflow_checks = FALSE
    /\ search_idle
    /\ aux_idle

\* no merge is under way and the behaviour may perform one more operation
may_operate == last.op # "merging" /\ last.n < MaxOps

coll_frame == <<roster, ignore_sb, overflow_checks, search_vars, aux>>

\* self.insert(card_data)
Insert ==
    /\ may_operate
    /\ \E card_data \in SampleRows :
          /\ collection' = insert_card(collection, card_data)
          /\ last' = [n |-> last.n + 1, op |-> "insert", card_data |-> card_data,
                      before |-> collection]
    /\ UNCHANGED <<other, coll_frame>>

\* one row of the iterator that FromIterator collects into other
FromIter ==
    /\ may_operate
    /\ \E card_data \in SampleRows :
          /\ other' = from_iter_push(other, card_data)
          /\ last' = [n |-> last.n + 1, op |-> "from_iter", card_data |-> card_data]
    /\ UNCHANGED <<collection, coll_frame>>

\* self.get(name)
Get ==
    /\ may_operate
    /\ \E name \in SampleNames :
          last' = [n |-> last.n + 1, op |-> "get", name |-> name,
                   key |-> simplified_name(name), found |-> get_ok(collection, name)]
    /\ UNCHANGED <<collection, other, coll_frame>>

\* the record of a merge about to iterate over source
merging(source, clone) ==
    [n |-> last.n + 1, op |-> IF DOMAIN source = {} THEN "merged" ELSE "merging",
     before |-> collection, source |-> source, todo |-> DOMAIN source, clone |-> clone]

\* self.merge(other): other is moved into the call
MergeOther ==
    /\ may_operate
    /\ last' = merging(other, FALSE)
    /\ other' = NoTable
    /\ UNCHANGED <<collection, coll_frame>>

\* self.merge(self.clone())
MergeClone ==
    /\ may_operate
    /\ last' = merging(collection, TRUE)
    /\ UNCHANGED <<collection, other, coll_frame>>

\* one turn of the outer loop of merge: the HashMap hands out its groups in
\* an order of its own
MergeGroup ==
    /\ last.op = "merging"
    /\ \E other_name \in last.todo :
          /\ collection' = merge_group(collection, other_name, last.source[other_name])
          /\ last' = [last EXCEPT !.todo = last.todo \ {other_name},
                                  !.op = IF last.todo = {other_name}
                                         THEN "merged" ELSE "merging"]
    /\ UNCHANGED <<other, coll_frame>>

CollNext == Insert \/ FromIter \/ Get \/ MergeOther \/ MergeClone \/ MergeGroup

CollSpec == CollInit /\ [][CollNext]_vars

\* the printings a content holds for a name and a set
printings(content, name, set) ==
    { i \in DOMAIN entry(content, name) : content[name][i][3] = set }

\* C13: every collection, whether built by insert and merge or collected from
\* fetched or CSV rows, holds at most one printing per (name, set); an insert
\* for a (name, set) that is already held overwrites that printing's amount
\* and rarity and adds no second entry.
C13_OnePrintingPerSet ==
    /\ \A content \in {collection, other} : \A name \in DOMAIN content :
          \A i, j \in DOMAIN content[name] :
              content[name][i][3] = content[name][j][3] => i = j
    /\ last.op = "insert" =>
          LET card_name == trim(last.card_data.name)
              held == printings(collection, card_name, last.card_data.set)
          IN /\ Cardinality(held) = 1
             /\ \A i \in held : collection[card_name][i][1] = last.card_data.amount
             /\ printings(last.before, card_name, last.card_data.set) # {}
                   => Len(collection[card_name]) = Len(last.before[card_name])

\* the normalized form of a name: the leading "A-" stripped, then everything
\* from the first " // " on removed
normal_form(name) ==
    LET trimmed == trim_start(name)
        seps == { i \in DOMAIN trimmed : trimmed[i] = " // " }
    IN IF seps = {} THEN trimmed
       ELSE SubSeq(trimmed, 1, (CHOOSE i \in seps : \A j \in seps : i <= j) - 1)

\* get finds, under this name, a printing of the set with the amount
gets_printing(content, name, set, amount) ==
    /\ get_ok(content, name)
    /\ \E i \in DOMAIN get(content, name) :
          get(content, name)[i][3] = set /\ get(content, name)[i][1] = amount

\* C14: right after insert(amount, name, rarity, set), get succeeds for the
\* literal name and for its normalized form, and each lookup returns a
\* printing for that set with the inserted amount.
C14_GetAfterInsert ==
    last.op = "insert" =>
        /\ gets_printing(collection, last.card_data.name,
                         last.card_data.set, last.card_data.amount)
        /\ gets_printing(collection, normal_form(last.card_data.name),
                         last.card_data.set, last.card_data.amount)

\* C15: the name simplified_name returns never starts with "A-" and never
\* contains " // "; "A-X" gives "X" and "A-X // Y" gives "X".
C15_SimplifiedName ==
    last.op = "get" =>
        /\ last.key # << >> => Head(last.key) # "A-"
        /\ " // " \notin Range(last.key)
        /\ last.name = <<"A-", "X">> => last.key = <<"X">>
        /\ last.name = <<"A-", "X", " // ", "Y">> => last.key = <<"X">>

\* C16: after any sequence of insert and merge from the empty collection,
\* every printing stored under Plains, Island, Swamp, Mountain or Forest has
\* rarity Land, whatever rarity was supplied.
C16_BasicLandsAreLand ==
    \A name \in DOMAIN collection \cap BasicLands :
        \A i \in DOMAIN collection[name] : collection[name][i][2] = "Land"

\* the printings of a content, as a set per name
printing_sets(content) == [name \in DOMAIN content |-> Range(content[name])]

\* C17: c.merge(c.clone()) leaves c unchanged, the same names with the same
\* printings, in whatever order merge goes through the groups.
C17_MergeIdempotent ==
    (last.op = "merged" /\ last.clone) =>
        printing_sets(collection) = printing_sets(last.before)

\* the rows <<amount, rarity>> a content holds for a name and a set
rows_of(content, name, set) ==
    { <<content[name][i][1], content[name][i][2]>> : i \in printings(content, name, set) }

\* the rows other holds for (name, set), under the name itself or under a
\* name that simplified_name turns into it
rows_for(content, name, set) ==
    UNION { rows_of(content, other_name, set) :
              other_name \in { k \in DOMAIN content : k = name \/ simplified_name(k) = name } }

\* the names a merge of this content can touch
merge_names(content) ==
    DOMAIN content \cup { trim(k) : k \in DOMAIN content }
                   \cup { simplified_name(trim(k)) : k \in DOMAIN content }

\* C18 as stated: merge is a union per (name, set) with overwrite.  After
\* self.merge(other), for every name n and set s: when other holds a printing
\* for (n, s), under n or under a name that normalizes to n, self's printing
\* for (n, s) carries other's amount and rarity; otherwise self's printing
\* for (n, s) is what it was before, so printings of sets other does not
\* mention are kept.
C18_MergeUnion ==
    (last.op = "merged" /\ ~last.clone) =>
        \A name \in DOMAIN collection \cup DOMAIN last.before
                    \cup merge_names(last.source) :
            \A set \in {"s1", "s2"} :
                IF rows_for(last.source, name, set) # {}
                THEN rows_of(collection, name, set) \cap rows_for(last.source, name, set) # {}
                ELSE rows_of(collection, name, set) = rows_of(last.before, name, set)

\* the rows merge writes for (name, set): those other holds under a name whose
\* trimmed form is the name or is simplified to it, with the rarity Land when
\* the trimmed form is a basic land
written_rows(content, name, set) ==
    UNION { { <<row[1], IF trim(k) \in BasicLands THEN "Land" ELSE row[2]>> :
                row \in rows_of(content, k, set) } :
            k \in { k \in DOMAIN content :
                        trim(k) = name \/ simplified_name(trim(k)) = name } }

\* C18 amended: after self.merge(other), for every name n and set s: when
\* other holds a printing of s under a name whose trimmed form is n or is
\* turned into n by simplified_name, self holds exactly one printing for
\* (n, s), with the amount of one of those printings and with its rarity, or
\* Land when that trimmed name is a basic land; otherwise self's printing for
\* (n, s) is what it was before.
C18_MergeUpsert ==
    (last.op = "merged" /\ ~last.clone) =>
        \A name \in DOMAIN collection \cup DOMAIN last.before
                    \cup merge_names(last.source) :
            \A set \in {"s1", "s2"} :
                IF written_rows(last.source, name, set) # {}
                THEN /\ Cardinality(printings(collection, name, set)) = 1
                     /\ rows_of(collection, name, set)
                            \subseteq written_rows(last.source, name, set)
                ELSE rows_of(collection, name, set) = rows_of(last.before, name, set)

\* a merge has overwritten the printing of X for s1 with a row other held
\* under another name, and has kept the printing of X for s2
C18_Witness ==
    /\ last.op = "merged" /\ ~last.clone
    /\ CardX \in DOMAIN last.before /\ CardX \notin DOMAIN last.source
    /\ \E k \in DOMAIN last.source :
          /\ trim(k) # CardX /\ simplified_name(trim(k)) = CardX
          /\ printings(last.source, k, "s1") # {}
    /\ rows_of(last.before, CardX, "s1") # {}
    /\ rows_of(last.before, CardX, "s1") # rows_of(collection, CardX, "s1")
    /\ written_rows(last.source, CardX, "s2") = {}
    /\ rows_of(collection, CardX, "s2") # {}

----------------------------------------------------------------------------
(* Deck::cards on one deck: DeckSpec *)

\* a sideboard has 0..MaxSide entries
MaxSide == 8

\* the mainboards a deck is drawn with: with and without the wishboard
\* trigger, with a name listed twice
Mainboards ==
    { [names |-> <<CardX>>, amounts |-> <<1>>],
      [names |-> <<CardX, CardM, CardX>>, amounts |-> <<1, 2, 2>>],
      [names |-> <<Karn>>, amounts |-> <<1>>],
      [names |-> <<Karn, CardX>>, amounts |-> <<1, 2>>] }

\* the entries <<name, amount>> a sideboard line is drawn from
SideEntries == { <<CardX, 1>>, <<CardY, 1>>, <<CardY, 2>> }

\* a parsed deck and the flag of the query
DeckInit ==
    /\ \E main \in Mainboards : \E n \in 0..MaxSide : \E side \in [1..n -> SideEntries] :
          roster = << [name |-> "D1", names_main |-> main.names,
                       amounts_main |-> main.amounts,
                       names_side |-> [i \in 1..n |-> side[i][1]],
                       amounts_side |-> [i \in 1..n |-> side[i][2]]] >>
    /\ ignore_sb \in BOOLEAN
    /\ collection = NoTable
    /\ other = NoTable
    /\ overflow_checks = FALSE
    /\ last = [op |-> "none"]
    /\ search_idle
    /\ aux_idle

\* deck.cards(ignore_sideboard), collected
Cards ==
    /\ last.op = "none"
    /\ last' = [op |-> "cards", counted |-> cards(roster[1], ignore_sb)]
    /\ UNCHANGED <<roster, collection, ignore_sb, other, overflow_checks, search_vars, aux>>

DeckNext == Cards

DeckSpec == DeckInit /\ [][DeckNext]_vars

\* the sum of the amounts at a set of positions
RECURSIVE sum_at(_, _)
sum_at(amounts, positions) ==
    IF positions = {} THEN 0
    ELSE LET i == CHOOSE k \in positions : TRUE
         IN amounts[i] + sum_at(amounts, positions \ {i})

\* the copies of a name among the first `upto` entries of a list
copies_in(amounts, names, card_name, upto) ==
    sum_at(amounts, { i \in DOMAIN names : i <= upto /\ names[i] = card_name })

\* the amount cards yielded for a name, 0 when it yielded none
counted(card_name) ==
    IF card_name \in DOMAIN last.counted THEN last.counted[card_name] ELSE 0

\* C19: for a deck without the wishboard trigger, cards yields each distinct
\* name once, with the sum of its mainboard entries plus, when the sideboard
\* is not ignored, the sum of its sideboard entries; when the sideboard is
\* ignored, names found in the sideboard only are absent.
C19_CardsCoalesced ==
    LET deck == roster[1] IN
    (last.op = "cards" /\ Karn \notin Range(deck.names_main)) =>
        /\ DOMAIN last.counted =
              Range(deck.names_main)
                \cup (IF ignore_sb THEN {} ELSE Range(deck.names_side))
        /\ \A card_name \in DOMAIN last.counted :
              last.counted[card_name] =
                  copies_in(deck.amounts_main, deck.names_main, card_name,
                            Len(deck.names_main))
                  + (IF ignore_sb THEN 0
                     ELSE copies_in(deck.amounts_side, deck.names_side, card_name,
                                    Len(deck.names_side)))

\* cards has coalesced a name listed twice in the mainboard and once or more
\* in the sideboard, and (sideboard ignored) has left out a sideboard-only name
C19_Witness ==
    LET deck == roster[1] IN
    /\ last.op = "cards" /\ Karn \notin Range(deck.names_main)
    /\ \E i, j \in DOMAIN deck.names_main : i # j /\ deck.names_main[i] = deck.names_main[j]
    /\ CardX \in Range(deck.names_main) \cap Range(deck.names_side)
    /\ CardY \in Range(deck.names_side)
    /\ ignore_sb
    /\ CardY \notin DOMAIN last.counted

\* C20: for a deck whose mainboard holds the wishboard trigger,
\* cards(ignore_sideboard = true) counts the mainboard and the first 7
\* sideboard entries, nothing from the 8th on, and
\* cards(ignore_sideboard = false) counts every sideboard entry once.
C20_Wishboard ==
    LET deck == roster[1] IN
    (last.op = "cards" /\ Karn \in Range(deck.names_main)) =>
        \A card_name \in DOMAIN last.counted \cup Range(deck.names_main)
                         \cup Range(deck.names_side) :
            counted(card_name) =
                copies_in(deck.amounts_main, deck.names_main, card_name,
                          Len(deck.names_main))
                + copies_in(deck.amounts_side, deck.names_side, card_name,
                            IF ignore_sb THEN 7 ELSE Len(deck.names_side))

\* a wishboard deck with 8 sideboard entries, queried with the sideboard
\* ignored: the 8th entry is the only one of its name and is not counted
C20_Witness ==
    LET deck == roster[1] IN
    /\ last.op = "cards" /\ Karn \in Range(deck.names_main)
    /\ ignore_sb
    /\ Len(deck.names_side) = 8
    /\ \A i \in 1..7 : deck.names_side[i] = CardX
    /\ deck.names_side[8] = CardY
    /\ CardY \notin DOMAIN last.counted
    /\ counted(CardX) > 7

----------------------------------------------------------------------------
(* lib.rs: the wildcard economy and Inventory::cheapest_rarity.  A          *)
(* coefficient is the fraction <<numerator, denominator>> of the f32        *)
(* division; the wallets drawn are far too small for the u32 sum to         *)
(* overflow or for the f32 quotients of two different fractions to meet.    *)

\* Wildcards::coefficients: the total
total_wallet(w) == w["Common"] + w["Uncommon"] + w["Rare"] + w["Mythic"]

\* Wildcards::coefficients as it would be with the owned count on top
coefficients_owned(w) == [r \in Craftable |-> <<w[r], 1 + w[r]>>]

\* Wildcards::coefficients: total as f32 / (1 + owned) as f32, per rarity
coefficients(w) == [r \in Craftable |-> <<total_wallet(w), 1 + w[r]>>]

\* f32 partial_cmp on two quotients: Less
less(a, b) == a[1] * b[2] < b[1] * a[2]

\* WildcardCoefficients::order: sort_unstable_by leaves the order of equal
\* coefficients open, so every ascending arrangement is a possible result
order(coeffs) ==
    { Append(p, "Land") :
        p \in { q \in [1..4 -> Craftable] :
                  /\ \A i, j \in 1..4 : q[i] = q[j] => i = j
                  /\ \A i, j \in 1..4 : i < j => ~less(coeffs[q[j]], coeffs[q[i]]) } }

\* the rarities of a card group
group_rarities(card_group) == { card_group[i][2] : i \in DOMAIN card_group }

\* Iterator::find over the ordered rarities: the positions that match
matches(ordered_rarities, card_group) ==
    { i \in DOMAIN ordered_rarities : ordered_rarities[i] \in group_rarities(card_group) }

\* Inventory::cheapest_rarity past its unwrap: the first match of the order
cheapest_in(ordered_rarities, card_group) ==
    LET found == matches(ordered_rarities, card_group)
    IN ordered_rarities[CHOOSE i \in found : \A j \in found : i <= j]

----------------------------------------------------------------------------
(* An Inventory answering one query: InventorySpec *)

\* a wallet holds 0..MaxWild wildcards of each rarity
MaxWild == 2

Rarities == {"Common", "Uncommon", "Rare", "Mythic", "Land", "Unknown"}

\* the groups of n printings the card is drawn with, one per set
rarity_groups(n) ==
    { [i \in 1..n |-> <<0, f[i], SetNames[i]>>] : f \in [1..n -> Rarities] }

\* a wallet, and a collection that knows the card X or knows nothing
InventoryInit ==
    /\ wallet \in [Craftable -> 0..MaxWild]
    /\ \/ collection = NoTable
       \/ \E n \in 1..MaxPrintings : \E card_group \in rarity_groups(n) :
             collection = (CardX :> card_group)
    /\ roster = << >>
    /\ ignore_sb = FALSE
    /\ other = NoTable
    /\ overflow_checks = FALSE
    /\ last = [op |-> "none"]
    /\ file = NoFile
    /\ cache = NoTable
    /\ search_idle

inventory_frame ==
    <<roster, collection, ignore_sb, other, overflow_checks, search_vars, aux>>

\* wallet.coefficients(), as Inventory::open computes it
Coefficients ==
    /\ last.op = "none"
    /\ last' = [op |-> "coefficients", coeffs |-> coefficients(wallet)]
    /\ UNCHANGED inventory_frame

\* cheapest_rarity(X): the card is unknown, get fails
CheapestFails ==
    /\ last.op = "none"
    /\ ~get_ok(collection, CardX)
    /\ last' = [op |-> "cheapest_rarity", outcome |-> "err"]
    /\ UNCHANGED inventory_frame

\* cheapest_rarity(X): no rarity of the order is among the printings, the
\* unwrap of find panics
CheapestPanics ==
    /\ last.op = "none"
    /\ get_ok(collection, CardX)
    /\ \E ordered_rarities \in order(coefficients(wallet)) :
          /\ matches(ordered_rarities, get(collection, CardX)) = {}
          /\ last' = [op |-> "cheapest_rarity", outcome |-> "panicked",
                      ordered_rarities |-> ordered_rarities]
    /\ UNCHANGED inventory_frame

\* cheapest_rarity(X) returns Ok(rarity)
CheapestReturns ==
    /\ last.op = "none"
    /\ get_ok(collection, CardX)
    /\ \E ordered_rarities \in order(coefficients(wallet)) :
          /\ matches(ordered_rarities, get(collection, CardX)) # {}
          /\ last' = [op |-> "cheapest_rarity", outcome |-> "ok",
                      ordered_rarities |-> ordered_rarities,
                      rarity |-> cheapest_in(ordered_rarities, get(collection, CardX))]
    /\ UNCHANGED inventory_frame

InventoryNext == Coefficients \/ CheapestFails \/ CheapestPanics \/ CheapestReturns

InventorySpec == InventoryInit /\ [][InventoryNext]_vars

\* C21 as stated: for every wallet and every craftable rarity r, the
\* coefficient total_wallet / (1 + wallet[r]) is strictly positive, and a
\* rarity with zero owned wildcards has the coefficient total_wallet.
C21_CoefficientPositive ==
    last.op = "coefficients" =>
        \A r \in Craftable :
            /\ last.coeffs[r][2] > 0 /\ last.coeffs[r][1] > 0
            /\ wallet[r] = 0 => last.coeffs[r][1] = total_wallet(wallet) * last.coeffs[r][2]

\* C21 amended: for every wallet and every craftable rarity r, the coefficient
\* total_wallet / (1 + wallet[r]) is strictly positive when the wallet holds
\* at least one wildcard and is 0 when the wallet is empty; a rarity with zero
\* owned wildcards has the coefficient total_wallet.
C21_CoefficientSign ==
    last.op = "coefficients" =>
        \A r \in Craftable :
            /\ last.coeffs[r][2] > 0
            /\ total_wallet(wallet) > 0 => last.coeffs[r][1] > 0
            /\ total_wallet(wallet) = 0 => last.coeffs[r][1] = 0
            /\ wallet[r] = 0 => last.coeffs[r][1] = total_wallet(wallet) * last.coeffs[r][2]

\* the coefficients of a wallet with wildcards of one rarity and none of
\* another
C21_Witness ==
    /\ last.op = "coefficients"
    /\ wallet["Rare"] = 0 /\ wallet["Common"] > 0
    /\ last.coeffs["Rare"] = <<total_wallet(wallet), 1>>

\* the coefficient of a craftable rarity in this wallet
select_of(w, r) == <<total_wallet(w), 1 + w[r]>>

\* C22: for a card with at least one printing, cheapest_rarity returns, and it
\* returns the first rarity of order(coefficients), the craftable rarities
\* ascending by coefficient and then Land, that is among the card's
\* printings; it fails only when the card has no known printing.
C22_CheapestRarity ==
    last.op = "cheapest_rarity" =>
        IF get_ok(collection, CardX) /\ get(collection, CardX) # << >>
        THEN /\ last.outcome = "ok"
             /\ last.rarity \in group_rarities(collection[CardX])
             /\ \A i, j \in 1..4 :
                   i < j => ~less(select_of(wallet, last.ordered_rarities[j]),
                                  select_of(wallet, last.ordered_rarities[i]))
             /\ last.ordered_rarities[5] = "Land"
             /\ \E i \in 1..5 :
                   /\ last.ordered_rarities[i] = last.rarity
                   /\ \A j \in 1..(i - 1) :
                         last.ordered_rarities[j] \notin group_rarities(collection[CardX])
        ELSE last.outcome = "err"

\* C28: with the sideboard ignored, a relevant deck without the wishboard
\* trigger has no bit set, in its rare or its mythic column, at a row of a
\* card it lists in its sideboard only, even when another relevant deck misses
\* that card: its bits cover only cards of Deck::cards(ignore_sideboard).
C28_SideboardSetsNoBit ==
    (built /\ ignore_sb) =>
        \A i \in DOMAIN decks :
            Karn \notin Range(decks[i].names_main) =>
                /\ \A row \in DOMAIN columns_rares[i] :
                      columns_rares[i][row] => row[1] \in DOMAIN cards(decks[i], ignore_sb)
                /\ \A row \in DOMAIN columns_mythics[i] :
                      columns_mythics[i][row] => row[1] \in DOMAIN cards(decks[i], ignore_sb)

----------------------------------------------------------------------------
(* lib.rs: Roster *)

\* Deck::name: the deck under another name
named(deck, name) == [deck EXCEPT !.name = name]

\* Iterator::position: the first deck of this name, 0 for None
position(ds, name) ==
    LET found == { i \in DOMAIN ds : ds[i].name = name }
    IN IF found = {} THEN 0 ELSE CHOOSE i \in found : \A j \in found : i <= j

\* Vec::swap_remove: the last element takes the place of the removed one
swap_remove(ds, i) ==
    [k \in 1..(Len(ds) - 1) |-> IF k = i THEN ds[Len(ds)] ELSE ds[k]]

\* Roster::remove_deck as it would be if it dropped every deck of the name
remove_deck_all(ds, name) ==
    LET keep == { i \in DOMAIN ds : ds[i].name # name }
        nth(k) == CHOOSE i \in keep : Cardinality({ j \in keep : j <= i }) = k
    IN [k \in 1..Cardinality(keep) |-> ds[nth(k)]]

\* Roster::remove_deck past its `?`
remove_deck(ds, name) == swap_remove(ds, position(ds, name))

\* Roster::find as it would be if it fell back on the first deck
found_or_first(ds, name) == ds # << >>

\* Roster::find and Roster::find_mut return Ok
found(ds, name) == position(ds, name) # 0

\* Roster::replace past its `?`, and the assignment through find_mut
replace(ds, name, deck) == [ds EXCEPT ![position(ds, name)] = deck]

\* Roster::deck_list
deck_list(ds) == [i \in DOMAIN ds |-> ds[i].name]

\* add_from_file: the parsed decks zipped with the names, or with "Unnamed"
zipped(lists, names) ==
    IF ~names.some THEN [i \in DOMAIN lists |-> named(lists[i], "Unnamed")]
    ELSE [i \in 1..(IF Len(lists) < Len(names.names) THEN Len(lists)
                     ELSE Len(names.names)) |->
             named(lists[i], names.names[i])]

----------------------------------------------------------------------------
(* A Roster from open to drop: RosterSpec *)

\* the decklists a file parses to: FromStr names them "Unnamed"
ParsedA ==
    [name |-> "Unnamed", names_main |-> <<CardX>>, amounts_main |-> <<1>>,
     names_side |-> << >>, amounts_side |-> << >>]

ParsedB ==
    [name |-> "Unnamed", names_main |-> <<CardM>>, amounts_main |-> <<2>>,
     names_side |-> << >>, amounts_side |-> << >>]

RosterNames == {"D1", "D2", "Unnamed"}

\* the decks handed to add_deck and replace
SampleDecks == { named(ParsedA, "D1"), named(ParsedB, "D1"), named(ParsedB, "D2"), ParsedA }

\* no roster document exists and no Roster is open
RosterInit ==
    /\ file = NoFile
    /\ roster = << >>
    /\ last = [n |-> 0, op |-> "none"]
    /\ collection = NoTable
    /\ other = NoTable
    /\ ignore_sb = FALSE
    /\ overflow_checks = FALSE
    /\ wallet = [r \in Craftable |-> 0]
    /\ cache = NoTable
    /\ search_idle

roster_frame == <<collection, other, ignore_sb, overflow_checks, wallet, cache, search_vars>>

\* a Roster is open and the behaviour may perform one more operation
is_open == last.op \notin {"none", "drop"} /\ last.n < MaxOps

\* the record of an operation
done(op, outcome, name) ==
    [n |-> last.n + 1, op |-> op, outcome |-> outcome, name |-> name,
     before |-> roster, file_before |-> file]

\* Roster::open: creates the document "[]" when there is none, then reads it
Open ==
    /\ last.op \in {"none", "drop"}
    /\ file' = IF ~file.exists THEN document(<< >>) ELSE file
    /\ roster' = file'.decks
    /\ last' = [n |-> last.n, op |-> "open", outcome |-> "ok", name |-> "",
                before |-> roster, file_before |-> file]
    /\ UNCHANGED roster_frame

\* add_deck as it would be if it wrote the document itself
AddDeckWrites ==
    /\ is_open
    /\ \E deck \in SampleDecks :
          /\ roster' = Append(roster, deck)
          /\ last' = done("add_deck", "ok", deck.name)
    /\ file' = document(roster')
    /\ UNCHANGED roster_frame

\* roster.add_deck(&deck)
AddDeck ==
    /\ is_open
    /\ \E deck \in SampleDecks :
          /\ roster' = Append(roster, deck)
          /\ last' = done("add_deck", "ok", deck.name)
    /\ UNCHANGED <<file, roster_frame>>

\* add_from_file(deck_paths, names, roster)
AddFromFile ==
    /\ is_open
    /\ \E lists \in { <<ParsedA>>, <<ParsedA, ParsedB>> } :
       \E names \in { [some |-> FALSE, names |-> << >>] }
                     \cup { [some |-> TRUE, names |-> ns] :
                               ns \in { <<"D1">>, <<"D1", "D2">>, <<"D2", "D2">> } } :
          /\ roster' = roster \o zipped(lists, names)
          /\ last' = done("add_from_file", "ok", "")
    /\ UNCHANGED <<file, roster_frame>>

\* roster.remove_deck(name)
RemoveDeck ==
    /\ is_open
    /\ \E name \in RosterNames :
          IF found(roster, name)
          THEN /\ roster' = remove_deck(roster, name)
               /\ last' = done("remove_deck", "ok", name)
          ELSE /\ roster' = roster
               /\ last' = done("remove_deck", "err", name)
    /\ UNCHANGED <<file, roster_frame>>

\* roster.find(name) and roster.find_mut(name), the reference not written to
Find ==
    /\ is_open
    /\ \E name \in RosterNames : \E op \in {"find", "find_mut"} :
          last' = done(op, IF found(roster, name) THEN "ok" ELSE "err", name)
    /\ UNCHANGED <<roster, file, roster_frame>>

\* roster.replace(name, deck)
Replace ==
    /\ is_open
    /\ \E name \in RosterNames : \E deck \in SampleDecks :
          IF found(roster, name)
          THEN /\ roster' = replace(roster, name, deck)
               /\ last' = done("replace", "ok", name)
          ELSE /\ roster' = roster
               /\ last' = done("replace", "err", name)
    /\ UNCHANGED <<file, roster_frame>>

\* Commands::Rename: find_mut(current_name)?.name = new_name
Rename ==
    /\ is_open
    /\ \E current_name \in RosterNames : \E new_name \in {"D1", "D2"} :
          IF found(roster, current_name)
          THEN /\ roster' = replace(roster, current_name,
                                    named(roster[position(roster, current_name)], new_name))
               /\ last' = done("rename", "ok", current_name)
          ELSE /\ roster' = roster
               /\ last' = done("rename", "err", current_name)
    /\ UNCHANGED <<file, roster_frame>>

\* roster.write()
Write ==
    /\ is_open
    /\ file' = document(roster)
    /\ last' = done("write", "ok", "")
    /\ UNCHANGED <<roster, roster_frame>>

\* drop(roster): writes the document
Drop ==
    /\ is_open
    /\ file' = document(roster)
    /\ last' = done("drop", "ok", "")
    /\ UNCHANGED <<roster, roster_frame>>

RosterNext ==
    Open \/ AddDeck \/ AddFromFile \/ RemoveDeck \/ Find \/ Replace \/ Rename
        \/ Write \/ Drop

RosterSpec == RosterInit /\ [][RosterNext]_vars

\* C23: after any sequence of roster operations (add_deck, add-from-file with
\* or without names, remove_deck, replace, rename) no two decks of the roster
\* have the same name.
C23_UniqueNames ==
    \A i, j \in DOMAIN roster : roster[i].name = roster[j].name => i = j

\* C24: once a roster that was opened and mutated is dropped, or write is
\* called, the document lists exactly the decks of the roster in the same
\* order; a roster opened where no document existed holds no deck and its
\* document is the empty list.
C24_DocumentIsRoster ==
    /\ last.op \in {"write", "drop"} => (file.exists /\ file.decks = roster)
    /\ (last.op = "open" /\ ~last.file_before.exists) =>
          (file.exists /\ file.decks = << >> /\ roster = << >>)

\* a write or a drop has replaced the document by a roster of two decks or
\* more
C24_Witness ==
    /\ last.op \in {"write", "drop"}
    /\ Len(roster) >= 2
    /\ last.file_before.decks # roster
    /\ file.decks = roster

mutating == {"add_deck", "remove_deck", "replace", "rename"}

\* C25 as stated: when a mutating roster operation (add_deck, remove_deck,
\* replace, rename) has completed, the document already equals the roster,
\* without a write and without the drop.
C25_PersistedAtOnce ==
    (last.op \in mutating /\ last.outcome = "ok") =>
        (file.exists /\ file.decks = roster)

\* C25 amended: a mutating roster operation (add_deck, remove_deck, replace,
\* rename) leaves the document as it was; the document equals the roster once
\* write has been called or the roster has been dropped.
C25_PersistedOnWrite ==
    /\ last.op \in mutating => file = last.file_before
    /\ last.op \in {"write", "drop"} => file.decks = roster

\* add_deck has completed and the document still lacks the deck
C25_Witness ==
    /\ last.op = "add_deck"
    /\ file.exists
    /\ Len(file.decks) < Len(roster)

\* a sequence without its i-th element
without(seq, i) == [k \in 1..(Len(seq) - 1) |-> IF k < i THEN seq[k] ELSE seq[k + 1]]

\* C26: deck_list gives the names of the decks of the roster in the order in
\* which the decks were added: add_deck puts the name last, and remove_deck
\* takes one name out and leaves the others in their order.
C26_DeckListInOrder ==
    /\ last.op = "add_deck" =>
          deck_list(roster) = Append(deck_list(last.before), last.name)
    /\ (last.op = "remove_deck" /\ last.outcome = "ok") =>
          \E i \in DOMAIN last.before :
              /\ last.before[i].name = last.name
              /\ deck_list(roster) = without(deck_list(last.before), i)

\* how often a deck occurs in a sequence of decks
occurrences(ds, deck) == Cardinality({ i \in DOMAIN ds : ds[i] = deck })

\* C27: remove_deck(name) on a roster holding a deck of that name removes
\* exactly one deck of that name and keeps every other deck: the decks
\* afterwards are the decks before minus that one.
C27_RemovesOne ==
    (last.op = "remove_deck" /\ position(last.before, last.name) # 0) =>
        /\ last.outcome = "ok"
        /\ \E i \in DOMAIN last.before :
              /\ last.before[i].name = last.name
              /\ \A deck \in Range(last.before) \cup Range(roster) :
                    occurrences(roster, deck) + (IF deck = last.before[i] THEN 1 ELSE 0)
                        = occurrences(last.before, deck)

\* remove_deck has removed one of two decks of the same name from a roster of
\* three decks or more
C27_Witness ==
    /\ last.op = "remove_deck" /\ last.outcome = "ok"
    /\ Len(last.before) >= 3
    /\ Cardinality({ i \in DOMAIN last.before : last.before[i].name = last.name }) = 2
    /\ Cardinality({ i \in DOMAIN roster : roster[i].name = last.name }) = 1

\* C29: remove_deck, find, find_mut and replace called with a name that no
\* deck of the roster has return an error and leave the decks of the roster,
\* and their order, unchanged.
C29_UnknownNameIsError ==
    (/\ last.op \in {"remove_deck", "find", "find_mut", "replace"}
     /\ \A i \in DOMAIN last.before : last.before[i].name # last.name) =>
        (last.outcome = "err" /\ roster = last.before)

\* remove_deck was called on a roster of two decks or more with a name none
\* of them has
C29_Witness ==
    /\ last.op = "remove_deck"
    /\ Len(last.before) >= 2
    /\ \A i \in DOMAIN last.before : last.before[i].name # last.name
    /\ last.outcome = "err"

----------------------------------------------------------------------------
(* mtga_id_translator.rs: MtgaIdTranslator *)

\* Option<NetCardData>: None, and Some(card data) of a name
NoCard == [some |-> FALSE, name |-> ""]

SomeCard(name) == [some |-> TRUE, name |-> name]

\* Result<Option<NetCardData>>
Ok(card_data) == [ok |-> TRUE, value |-> card_data]

Err == [ok |-> FALSE, value |-> NoCard]

\* StatusCode
StatusOk == 200

StatusNotFound == 404

StatusServerError == 500

\* reqwest::blocking::get failed before any status was received
NoResponse == [received |-> FALSE, status |-> 0, body |-> ""]

\* the responses of the remote database: a card, a body that is no card data,
\* not found, another failure status, or none at all
Responses ==
    { [received |-> TRUE, status |-> StatusOk, body |-> b] : b \in {"X", "M", "garbage"} }
    \cup { [received |-> TRUE, status |-> st, body |-> ""] :
              st \in {StatusNotFound, StatusServerError} }
    \cup { NoResponse }

\* response.json::<NetCardData>() succeeds
parses(response) == response.body # "garbage"

\* translate past the cache: what the response makes of the cache
cache_after(table, id, response) ==
    IF ~response.received THEN table
    ELSE IF response.status = StatusNotFound THEN (id :> NoCard) @@ table
    ELSE IF response.status # StatusOk THEN table
    ELSE IF ~parses(response) THEN table
    ELSE (id :> SomeCard(response.body)) @@ table

\* translate past the cache: what the call returns for the response
returned(response) ==
    IF ~response.received THEN Err
    ELSE IF response.status # StatusOk THEN Err
    ELSE IF ~parses(response) THEN Err
    ELSE Ok(SomeCard(response.body))

\* the remote database has answered: found with card data, or not found
answered(response) ==
    /\ response.received
    /\ \/ response.status = StatusNotFound
       \/ response.status = StatusOk /\ parses(response)

----------------------------------------------------------------------------
(* A translator from load_from_file on: TranslatorSpec *)

\* the Arena ids translate is called with
ArenaIds == {1, 2, 3}

\* load_from_file where no repository exists: the cache is {}
TranslatorInit ==
    /\ cache = NoTable
    /\ last = [n |-> 0, op |-> "load_from_file", answers |-> NoTable,
               last_request_time |-> FALSE]
    /\ roster = << >>
    /\ collection = NoTable
    /\ other = NoTable
    /\ ignore_sb = FALSE
    /\ overflow_checks = FALSE
    /\ wallet = [r \in Craftable |-> 0]
    /\ file = NoFile
    /\ search_idle

translator_frame ==
    <<roster, collection, other, ignore_sb, overflow_checks, wallet, file, search_vars>>

\* translate(id) with the id in the cache: no request
TranslateCached ==
    /\ last.n < MaxOps
    /\ \E id \in ArenaIds :
          /\ id \in DOMAIN cache
          /\ last' = [n |-> last.n + 1, op |-> "translate", id |-> id,
                      hit |-> TRUE, requested |-> FALSE, response |-> NoResponse,
                      outcome |-> Ok(cache[id]), answers |-> last.answers,
                      last_request_time |-> last.last_request_time]
    /\ UNCHANGED <<cache, translator_frame>>

\* translate(id) with the id not in the cache: handle_wait, then one request
TranslateRequests ==
    /\ last.n < MaxOps
    /\ \E id \in ArenaIds : \E response \in Responses :
          /\ id \notin DOMAIN cache
          /\ cache' = cache_after(cache, id, response)
          /\ last' = [n |-> last.n + 1, op |-> "translate", id |-> id,
                      hit |-> FALSE, requested |-> TRUE, response |-> response,
                      outcome |-> returned(response),
                      answers |-> IF answered(response)
                                  THEN (id :> returned(response)) @@ last.answers
                                  ELSE last.answers,
                      last_request_time |-> TRUE]
    /\ UNCHANGED translator_frame

TranslatorNext == TranslateCached \/ TranslateRequests

TranslatorSpec == TranslatorInit /\ [][TranslatorNext]_vars

\* C30: once the remote database has answered for an Arena id (found with card
\* data, or not found), every later translate(id) returns the outcome of the
\* call that received the answer and issues no request; a request that failed
\* with another status leaves the id out of the cache, so that it is requested
\* again.
C30_CacheTransparent ==
    last.op = "translate" =>
        /\ last.id \in DOMAIN last.answers =>
              (last.outcome = last.answers[last.id] /\ (last.hit => ~last.requested))
        /\ (last.requested /\ last.response.received
                /\ last.response.status \notin {StatusOk, StatusNotFound}) =>
              last.id \notin DOMAIN cache

====
